---- MODULE Spec2Model ----
(***************************************************************************)
(* A model of the lochnes NES emulator core (src/src/nes.rs): the bus      *)
(* (read_u8 / read_u16 / write_u8), the CPU interpreter (step_cpu), the    *)
(* PPU dot counter (step_ppu) and the 1 CPU : 3 PPU stepper (step).        *)
(*                                                                         *)
(* Bytes are 0..255, words are 0..65535.  Memories (RAM, PRG-ROM) are      *)
(* functions from the offsets that hold a non-zero byte to that byte; an   *)
(* offset outside the domain holds 0.                                      *)
(***************************************************************************)
EXTENDS Integers, Naturals, Sequences, FiniteSets, TLC

VARIABLES
    rom,              \* Nes.rom: [mapper, prg_rom, prg_len]
    ram,              \* Nes.ram: [u8; 0x0800]
    cpu,              \* Nes.cpu: [pc, a, x, y, s, p]
    ppu,              \* Nes.ppu: [cycle, ctrl, mask, status, scroll, scroll_addr_latch]
    overflow_checks,  \* build profile: TRUE = arithmetic overflow panics, FALSE = it wraps
    fatal,            \* the panic that ended the run, [kind |-> "none"] while running
    phase,            \* position inside Nes::step: 0 = not in step, k = k-1 step_ppu calls made
    cpu_step,         \* the CpuStep produced by the last step_cpu call
    nc,               \* number of CpuStep values returned by Nes::step so far
    np,               \* number of step_ppu calls made so far
    vblank_at,        \* ppu.cycle right after the last tick that turned VBLANK_STARTED 0 -> 1 (0: not yet)
    cycles,           \* number of CPU steps the driver pulls (BENCH_CYCLES)
    calls             \* the driver's direct bus calls, in order

vars == <<rom, ram, cpu, ppu, overflow_checks, fatal, phase, cpu_step, nc, np,
          vblank_at, cycles, calls>>

-----------------------------------------------------------------------------
(* Bounds *)

\* CPU steps pulled in the short runs
MaxCycles == 20

\* direct bus calls made by a harness
MaxBusCalls == 3

\* CPU steps pulled in the runs that reach the first VBlank
VblankCycles == 27284

\* CPU steps pulled in the runs that pass the VBlank dot of the second frame
FrameCycles == 57064

-----------------------------------------------------------------------------
(* Bit arithmetic on naturals *)

RECURSIVE BitAnd(_, _)
BitAnd(m, n) ==
    IF m = 0 \/ n = 0 THEN 0
    ELSE (IF m % 2 = 1 /\ n % 2 = 1 THEN 1 ELSE 0) + 2 * BitAnd(m \div 2, n \div 2)

RECURSIVE BitOr(_, _)
BitOr(m, n) ==
    IF m = 0 THEN n
    ELSE IF n = 0 THEN m
    ELSE (IF m % 2 = 1 \/ n % 2 = 1 THEN 1 ELSE 0) + 2 * BitOr(m \div 2, n \div 2)

\* `v as i8`
AsI8(v) == IF v >= 128 THEN v - 256 ELSE v

\* `v as i16`
AsI16(v) == IF v >= 32768 THEN v - 65536 ELSE v

\* `v as u16` of a (possibly negative) integer
AsU16(v) == v % 65536

\* u8::wrapping_sub
WrappingSubU8(v, d) == (v - d) % 256

\* u16::wrapping_add / wrapping_sub
WrappingAddU16(v, d) == (v + d) % 65536
WrappingSubU16(v, d) == (v - d) % 65536

-----------------------------------------------------------------------------
(* Sparse memories *)

Get(mem, i) == IF i \in DOMAIN mem THEN mem[i] ELSE 0

Put(mem, i, v) ==
    LET D == IF v = 0 THEN DOMAIN mem \ {i} ELSE DOMAIN mem \cup {i}
    IN  [j \in D |-> IF j = i THEN v ELSE mem[j]]

EmptyMem == [j \in {} |-> 0]

-----------------------------------------------------------------------------
(* Flag bits *)

FlagC == 1
FlagZ == 2
FlagI == 4
FlagD == 8
FlagB == 16
FlagU == 32
FlagV == 64
FlagN == 128

VBLANK_STARTED == 128

\* bitflags `contains`
Contains(bits, flag) == BitAnd(bits, flag) = flag

\* bitflags `set(flag, value)`
SetBits(bits, flag, value) ==
    IF value THEN BitOr(bits, flag) ELSE bits - BitAnd(bits, flag)

\* set_flags that overwrites the whole of p
set_flags_whole(c, flags, value) == [c EXCEPT !.p = IF value THEN flags ELSE 0]

\* Cpu::set_flags
set_flags(c, flags, value) == [c EXCEPT !.p = SetBits(c.p, flags, value)]

-----------------------------------------------------------------------------
(* Results of fallible operations: err = "none" and a value, or the panic *)

NoFatal == [kind |-> "none", addr |-> 0, byte |-> 0]
Ok(v) == [err |-> NoFatal, val |-> v]
Panic(kind, addr, byte) == [err |-> [kind |-> kind, addr |-> addr, byte |-> byte], val |-> 0]
IsOk(r) == r.err.kind = "none"

\* u16 `a + b`: panics on overflow when overflow checks are compiled in, wraps otherwise
AddU16(n, a, b) ==
    IF a + b > 65535 /\ n.overflow_checks
    THEN Panic("overflow", a, 0)
    ELSE Ok((a + b) % 65536)

\* i16 `a + b` followed by `as u16`
AddI16AsU16(n, a, b) ==
    IF (a + b > 32767 \/ a + b < -32768) /\ n.overflow_checks
    THEN Panic("overflow", AsU16(a), 0)
    ELSE Ok(AsU16(a + b))

-----------------------------------------------------------------------------
(* Ppu *)

\* Ppu::new
PpuNew == [cycle |-> 0, ctrl |-> 0, mask |-> 0, status |-> 0, oam_addr |-> 0,
           scroll |-> 0, addr |-> 0, scroll_addr_latch |-> FALSE]

\* PpuStatusFlags::from_bits_truncate and friends: all 8 bits of ctrl and mask are
\* named flags, so truncation keeps the byte
set_ppuctrl(p, value) == [p EXCEPT !.ctrl = value]

set_ppumask(p, value) == [p EXCEPT !.mask = value]

\* Ppu::write_ppuscroll
write_ppuscroll(p, value) ==
    LET latch == p.scroll_addr_latch
        new_scroll ==
            IF latch
            THEN LET scroll_lo == BitAnd(p.scroll, 255)
                     scroll_hi == (value * 256) % 65536
                 IN  BitOr(scroll_lo, scroll_hi)
            ELSE LET scroll_lo == p.scroll
                     scroll_hi == BitAnd(p.scroll, 65280)
                 IN  BitOr(scroll_lo, scroll_hi)
    IN  [p EXCEPT !.scroll = new_scroll, !.scroll_addr_latch = ~latch]

\* Ppu::ppustatus
ppustatus(p) == p.status

-----------------------------------------------------------------------------
(* Bus *)

\* read_u8 without the mapper check
read_u8_anymapper(n, addr) ==
    IF addr \in 0..2047 THEN Ok(Get(n.ram, addr))
    ELSE IF addr = 8194 THEN Ok(ppustatus(n.ppu))
    ELSE IF addr \in 32768..65535
         THEN LET rom_offset == addr - 32768
                  mapped_addr == rom_offset % n.rom.prg_len
              IN  Ok(Get(n.rom.prg_rom, mapped_addr))
    ELSE Panic("read", addr, 0)

\* read_u8 that maps PRG addresses as if the ROM always had a single 16 KiB page
read_u8_onepage(n, addr) ==
    IF n.rom.mapper # 0 THEN Panic("mapper", addr, n.rom.mapper)
    ELSE IF addr \in 0..2047 THEN Ok(Get(n.ram, addr))
    ELSE IF addr = 8194 THEN Ok(ppustatus(n.ppu))
    ELSE IF addr \in 32768..65535
         THEN LET rom_offset == addr - 32768
                  mapped_addr == rom_offset % 16384
              IN  Ok(Get(n.rom.prg_rom, mapped_addr))
    ELSE Panic("read", addr, 0)

\* Nes::read_u8
read_u8(n, addr) ==
    IF n.rom.mapper # 0 THEN Panic("mapper", addr, n.rom.mapper)
    ELSE IF addr \in 0..2047 THEN Ok(Get(n.ram, addr))
    ELSE IF addr = 8194 THEN Ok(ppustatus(n.ppu))
    ELSE IF addr \in 32768..65535
         THEN LET rom_offset == addr - 32768
                  mapped_addr == rom_offset % n.rom.prg_len
              IN  Ok(Get(n.rom.prg_rom, mapped_addr))
    ELSE Panic("read", addr, 0)

\* Nes::read_i8
read_i8(n, addr) ==
    LET r == read_u8(n, addr)
    IN  IF IsOk(r) THEN Ok(AsI8(r.val)) ELSE r

\* read_u16 with the two bytes composed big-endian
read_u16_swapped(n, addr) ==
    LET lo == read_u8(n, addr)
        a1 == AddU16(n, addr, 1)
        hi == read_u8(n, a1.val)
    IN  IF ~IsOk(lo) THEN lo
        ELSE IF ~IsOk(a1) THEN a1
        ELSE IF ~IsOk(hi) THEN hi
        ELSE Ok(BitOr(hi.val, lo.val * 256))

\* Nes::read_u16
read_u16(n, addr) ==
    LET lo == read_u8(n, addr)
        a1 == AddU16(n, addr, 1)
        hi == read_u8(n, a1.val)
    IN  IF ~IsOk(lo) THEN lo
        ELSE IF ~IsOk(a1) THEN a1
        ELSE IF ~IsOk(hi) THEN hi
        ELSE Ok(BitOr(lo.val, hi.val * 256))

\* Nes::write_u8: the Nes after the write, and the panic if there was one
write_u8(n, addr, value) ==
    IF n.rom.mapper # 0
    THEN [nes |-> n, err |-> Panic("mapper", addr, n.rom.mapper).err]
    ELSE IF addr \in 0..2047
         THEN [nes |-> [n EXCEPT !.ram = Put(n.ram, addr, value)], err |-> NoFatal]
    ELSE IF addr = 8192
         THEN [nes |-> [n EXCEPT !.ppu = set_ppuctrl(n.ppu, value)], err |-> NoFatal]
    ELSE IF addr = 8193
         THEN [nes |-> [n EXCEPT !.ppu = set_ppumask(n.ppu, value)], err |-> NoFatal]
    ELSE IF addr = 8197
         THEN [nes |-> [n EXCEPT !.ppu = write_ppuscroll(n.ppu, value)], err |-> NoFatal]
    ELSE IF addr \in 32768..65535
         THEN LET rom_offset == addr - 32768
                  mapped_addr == rom_offset % n.rom.prg_len
              IN  [nes |-> [n EXCEPT !.rom.prg_rom = Put(n.rom.prg_rom, mapped_addr, value)],
                   err |-> NoFatal]
    ELSE [nes |-> n, err |-> Panic("write", addr, value).err]

-----------------------------------------------------------------------------
(* Cpu *)

\* Cpu::new
CpuNew == [pc |-> 0, a |-> 0, x |-> 0, y |-> 0, s |-> 253, p |-> 52]

\* Opcode::from_u8 with a stray arm that decodes $00 as BPL
OpcodeFromU8Stray(opcode) ==
    CASE opcode = 16  -> "Bpl"
      [] opcode = 0   -> "Bpl"
      [] opcode = 32  -> "Jsr"
      [] opcode = 41  -> "AndImm"
      [] opcode = 76  -> "JmpAbs"
      [] opcode = 120 -> "Sei"
      [] opcode = 132 -> "StyZero"
      [] opcode = 133 -> "StaZero"
      [] opcode = 136 -> "Dey"
      [] opcode = 141 -> "StaAbs"
      [] opcode = 145 -> "StaIndY"
      [] opcode = 154 -> "Txs"
      [] opcode = 160 -> "LdyImm"
      [] opcode = 162 -> "LdxImm"
      [] opcode = 169 -> "LdaImm"
      [] opcode = 173 -> "LdaAbs"
      [] opcode = 198 -> "DecZero"
      [] opcode = 208 -> "Bne"
      [] opcode = 216 -> "Cld"
      [] opcode = 240 -> "Beq"
      [] OTHER -> "unimplemented"

\* Opcode::from_u8; "unimplemented" stands for the panic of the last arm
OpcodeFromU8(opcode) ==
    CASE opcode = 16  -> "Bpl"
      [] opcode = 32  -> "Jsr"
      [] opcode = 41  -> "AndImm"
      [] opcode = 76  -> "JmpAbs"
      [] opcode = 120 -> "Sei"
      [] opcode = 132 -> "StyZero"
      [] opcode = 133 -> "StaZero"
      [] opcode = 136 -> "Dey"
      [] opcode = 141 -> "StaAbs"
      [] opcode = 145 -> "StaIndY"
      [] opcode = 154 -> "Txs"
      [] opcode = 160 -> "LdyImm"
      [] opcode = 162 -> "LdxImm"
      [] opcode = 169 -> "LdaImm"
      [] opcode = 173 -> "LdaAbs"
      [] opcode = 198 -> "DecZero"
      [] opcode = 208 -> "Bne"
      [] opcode = 216 -> "Cld"
      [] opcode = 240 -> "Beq"
      [] OTHER -> "unimplemented"

NoStep == [pc |-> 0, op |-> "none", arg |-> 0]

\* a panicking step_cpu that has already moved pc past the opcode byte
AbortAdvanced(n, pc, e) ==
    [nes |-> [n EXCEPT !.cpu.pc = WrappingAddU16(pc, 1)], err |-> e,
     step |-> [pc |-> pc, op |-> "none", arg |-> 0]]

\* step_cpu panicked with error e, leaving the Nes as n
Abort(n, pc, e) == [nes |-> n, err |-> e, step |-> [pc |-> pc, op |-> "none", arg |-> 0]]

\* the tail of step_cpu: `self.cpu.pc = next_pc; CpuStep { pc, op }`
Retire(n, pc, next, op, arg) ==
    IF IsOk(next)
    THEN [nes |-> [n EXCEPT !.cpu.pc = next.val], err |-> NoFatal,
          step |-> [pc |-> pc, op |-> op, arg |-> arg]]
    ELSE Abort(n, pc, next.err)

\* `self.read_u8(pc + 1)`
Operand8(n, pc) ==
    LET a1 == AddU16(n, pc, 1)
    IN  IF IsOk(a1) THEN read_u8(n, a1.val) ELSE a1

\* `self.read_i8(pc + 1)`
OperandI8(n, pc) ==
    LET a1 == AddU16(n, pc, 1)
    IN  IF IsOk(a1) THEN read_i8(n, a1.val) ELSE a1

\* `self.read_u16(pc + 1)`
Operand16(n, pc) ==
    LET a1 == AddU16(n, pc, 1)
    IN  IF IsOk(a1) THEN read_u16(n, a1.val) ELSE a1

\* the Z and N updates made after a result byte
SetZN(c, value) ==
    set_flags(set_flags(c, FlagZ, value = 0), FlagN, BitAnd(value, 128) # 0)

ExecAndImm(n, pc) ==
    LET value == Operand8(n, pc)
        a == BitAnd(n.cpu.a, value.val)
        n1 == [n EXCEPT !.cpu = SetZN([n.cpu EXCEPT !.a = a], a)]
    IN  IF ~IsOk(value) THEN Abort(n, pc, value.err)
        ELSE Retire(n1, pc, AddU16(n, pc, 2), "AndImm", value.val)

\* the common shape of Beq / Bne / Bpl
Branch(n, pc, taken, op) ==
    LET addr_offset == OperandI8(n, pc)
        pc_after == AddU16(n, pc, 2)
    IN  IF ~IsOk(addr_offset) THEN Abort(n, pc, addr_offset.err)
        ELSE IF ~IsOk(pc_after) THEN Abort(n, pc, pc_after.err)
        ELSE Retire(n, pc,
                    IF taken
                    THEN AddI16AsU16(n, AsI16(pc_after.val), addr_offset.val)
                    ELSE pc_after,
                    op, addr_offset.val)

ExecBeq(n, pc) == Branch(n, pc, Contains(n.cpu.p, FlagZ), "Beq")

ExecBne(n, pc) == Branch(n, pc, ~Contains(n.cpu.p, FlagZ), "Bne")

ExecBpl(n, pc) == Branch(n, pc, ~Contains(n.cpu.p, FlagN), "Bpl")

ExecCld(n, pc) ==
    Retire([n EXCEPT !.cpu = set_flags(n.cpu, FlagD, FALSE)], pc, AddU16(n, pc, 1), "Cld", 0)

ExecDecZero(n, pc) ==
    LET zero_page == Operand8(n, pc)
        addr == zero_page.val
        old == read_u8(n, addr)
        value == WrappingSubU8(old.val, 1)
        w == write_u8(n, addr, value)
        n1 == [w.nes EXCEPT !.cpu = SetZN(w.nes.cpu, value)]
    IN  IF ~IsOk(zero_page) THEN Abort(n, pc, zero_page.err)
        ELSE IF ~IsOk(old) THEN Abort(n, pc, old.err)
        ELSE IF w.err.kind # "none" THEN Abort(w.nes, pc, w.err)
        ELSE Retire(n1, pc, AddU16(n, pc, 2), "DecZero", zero_page.val)

ExecDey(n, pc) ==
    LET y == WrappingSubU8(n.cpu.y, 1)
        n1 == [n EXCEPT !.cpu = [SetZN(n.cpu, y) EXCEPT !.y = y]]
    IN  Retire(n1, pc, AddU16(n, pc, 1), "Dey", 0)

ExecJmpAbs(n, pc) ==
    LET addr == Operand16(n, pc)
    IN  IF ~IsOk(addr) THEN Abort(n, pc, addr.err)
        ELSE Retire(n, pc, addr, "JmpAbs", addr.val)

ExecJsr(n, pc) ==
    LET addr == Operand16(n, pc)
        ret_pc == WrappingAddU16(pc, 3)
        push_pc == WrappingSubU16(ret_pc, 1)
        push_pc_hi == BitAnd(65280, push_pc) \div 256
        push_pc_lo == BitAnd(255, push_pc)
        stack_offset_hi == n.cpu.s
        stack_offset_lo == WrappingSubU8(n.cpu.s, 1)
        stack_addr_hi == BitAnd(256, stack_offset_hi)
        stack_addr_lo == BitAnd(256, stack_offset_lo)
        w1 == write_u8(n, stack_addr_hi, push_pc_hi)
        w2 == write_u8(w1.nes, stack_addr_lo, push_pc_lo)
        n1 == [w2.nes EXCEPT !.cpu.s = WrappingSubU8(n.cpu.s, 2)]
    IN  IF ~IsOk(addr) THEN Abort(n, pc, addr.err)
        ELSE IF w1.err.kind # "none" THEN Abort(w1.nes, pc, w1.err)
        ELSE IF w2.err.kind # "none" THEN Abort(w2.nes, pc, w2.err)
        ELSE Retire(n1, pc, addr, "Jsr", addr.val)

ExecLdaAbs(n, pc) ==
    LET addr == Operand16(n, pc)
        value == read_u8(n, addr.val)
        n1 == [n EXCEPT !.cpu.a = value.val]
    IN  IF ~IsOk(addr) THEN Abort(n, pc, addr.err)
        ELSE IF ~IsOk(value) THEN Abort(n, pc, value.err)
        ELSE Retire(n1, pc, AddU16(n, pc, 3), "LdaAbs", addr.val)

ExecLdaImm(n, pc) ==
    LET value == Operand8(n, pc)
        n1 == [n EXCEPT !.cpu.a = value.val]
    IN  IF ~IsOk(value) THEN Abort(n, pc, value.err)
        ELSE Retire(n1, pc, AddU16(n, pc, 2), "LdaImm", value.val)

ExecLdxImm(n, pc) ==
    LET value == Operand8(n, pc)
        n1 == [n EXCEPT !.cpu.x = value.val]
    IN  IF ~IsOk(value) THEN Abort(n, pc, value.err)
        ELSE Retire(n1, pc, AddU16(n, pc, 2), "LdxImm", value.val)

ExecLdyImm(n, pc) ==
    LET value == Operand8(n, pc)
        n1 == [n EXCEPT !.cpu.y = value.val]
    IN  IF ~IsOk(value) THEN Abort(n, pc, value.err)
        ELSE Retire(n1, pc, AddU16(n, pc, 2), "LdyImm", value.val)

ExecSei(n, pc) ==
    Retire([n EXCEPT !.cpu = set_flags(n.cpu, FlagI, TRUE)], pc, AddU16(n, pc, 1), "Sei", 0)

ExecStaAbs(n, pc) ==
    LET a == n.cpu.a
        addr == Operand16(n, pc)
        w == write_u8(n, addr.val, a)
    IN  IF ~IsOk(addr) THEN Abort(n, pc, addr.err)
        ELSE IF w.err.kind # "none" THEN Abort(w.nes, pc, w.err)
        ELSE Retire(w.nes, pc, AddU16(n, pc, 3), "StaAbs", addr.val)

ExecStaZero(n, pc) ==
    LET a == n.cpu.a
        zero_page == Operand8(n, pc)
        w == write_u8(n, zero_page.val, a)
    IN  IF ~IsOk(zero_page) THEN Abort(n, pc, zero_page.err)
        ELSE IF w.err.kind # "none" THEN Abort(w.nes, pc, w.err)
        ELSE Retire(w.nes, pc, AddU16(n, pc, 2), "StaZero", zero_page.val)

ExecStaIndY(n, pc) ==
    LET a == n.cpu.a
        y == n.cpu.y
        target_addr_base == Operand8(n, pc)
        addr_base == read_u16(n, target_addr_base.val)
        addr == WrappingAddU16(addr_base.val, y)
        w == write_u8(n, addr, a)
    IN  IF ~IsOk(target_addr_base) THEN Abort(n, pc, target_addr_base.err)
        ELSE IF ~IsOk(addr_base) THEN Abort(n, pc, addr_base.err)
        ELSE IF w.err.kind # "none" THEN Abort(w.nes, pc, w.err)
        ELSE Retire(w.nes, pc, AddU16(n, pc, 2), "StaIndY", target_addr_base.val)

ExecStyZero(n, pc) ==
    LET y == n.cpu.y
        zero_page == Operand8(n, pc)
        w == write_u8(n, zero_page.val, y)
    IN  IF ~IsOk(zero_page) THEN Abort(n, pc, zero_page.err)
        ELSE IF w.err.kind # "none" THEN Abort(w.nes, pc, w.err)
        ELSE Retire(w.nes, pc, AddU16(n, pc, 2), "StyZero", zero_page.val)

ExecTxs(n, pc) ==
    Retire([n EXCEPT !.cpu.s = n.cpu.x], pc, AddU16(n, pc, 1), "Txs", 0)

\* Nes::step_cpu: [nes: the Nes afterwards, err: the panic if any, step: the CpuStep]
step_cpu(n) ==
    LET pc == n.cpu.pc
        byte == read_u8(n, pc)
        opcode == OpcodeFromU8(byte.val)
    IN  IF ~IsOk(byte) THEN Abort(n, pc, byte.err)
        ELSE CASE opcode = "AndImm"  -> ExecAndImm(n, pc)
               [] opcode = "Beq"     -> ExecBeq(n, pc)
               [] opcode = "Bne"     -> ExecBne(n, pc)
               [] opcode = "Bpl"     -> ExecBpl(n, pc)
               [] opcode = "Cld"     -> ExecCld(n, pc)
               [] opcode = "DecZero" -> ExecDecZero(n, pc)
               [] opcode = "Dey"     -> ExecDey(n, pc)
               [] opcode = "JmpAbs"  -> ExecJmpAbs(n, pc)
               [] opcode = "Jsr"     -> ExecJsr(n, pc)
               [] opcode = "LdaAbs"  -> ExecLdaAbs(n, pc)
               [] opcode = "LdaImm"  -> ExecLdaImm(n, pc)
               [] opcode = "LdxImm"  -> ExecLdxImm(n, pc)
               [] opcode = "LdyImm"  -> ExecLdyImm(n, pc)
               [] opcode = "Sei"     -> ExecSei(n, pc)
               [] opcode = "StaAbs"  -> ExecStaAbs(n, pc)
               [] opcode = "StaZero" -> ExecStaZero(n, pc)
               [] opcode = "StaIndY" -> ExecStaIndY(n, pc)
               [] opcode = "StyZero" -> ExecStyZero(n, pc)
               [] opcode = "Txs"     -> ExecTxs(n, pc)
               [] OTHER              -> Abort(n, pc, Panic("opcode", pc, byte.val).err)

\* step_ppu that also clears the flag at scanline 261, dot 1
step_ppu_clears(n) ==
    LET cycle == n.ppu.cycle
        frame_cycle == cycle % 89342
        scanline == frame_cycle \div 341
        scanline_cycle == frame_cycle % 341
        status == IF scanline = 240 /\ scanline_cycle = 1
                  THEN SetBits(n.ppu.status, VBLANK_STARTED, TRUE)
                  ELSE IF scanline = 261 /\ scanline_cycle = 1
                  THEN SetBits(n.ppu.status, VBLANK_STARTED, FALSE)
                  ELSE n.ppu.status
    IN  [n EXCEPT !.ppu.status = status, !.ppu.cycle = cycle + 1]

\* step_ppu setting the flag at scanline 241, dot 1
step_ppu_241(n) ==
    LET cycle == n.ppu.cycle
        frame_cycle == cycle % 89342
        scanline == frame_cycle \div 341
        scanline_cycle == frame_cycle % 341
        status == IF scanline = 241 /\ scanline_cycle = 1
                  THEN SetBits(n.ppu.status, VBLANK_STARTED, TRUE)
                  ELSE n.ppu.status
    IN  [n EXCEPT !.ppu.status = status, !.ppu.cycle = cycle + 1]

\* Nes::step_ppu
step_ppu(n) ==
    LET cycle == n.ppu.cycle
        frame_cycle == cycle % 89342
        scanline == frame_cycle \div 341
        scanline_cycle == frame_cycle % 341
        status == IF scanline = 240 /\ scanline_cycle = 1
                  THEN SetBits(n.ppu.status, VBLANK_STARTED, TRUE)
                  ELSE n.ppu.status
    IN  [n EXCEPT !.ppu.status = status, !.ppu.cycle = cycle + 1]

\* Nes::new_from_rom: [nes, err]
new_from_rom(r, oc) ==
    LET n == [rom |-> r, ram |-> EmptyMem, cpu |-> CpuNew, ppu |-> PpuNew,
              overflow_checks |-> oc]
        reset_addr == read_u16(n, 65532)
    IN  IF IsOk(reset_addr)
        THEN [nes |-> [n EXCEPT !.cpu.pc = reset_addr.val], err |-> NoFatal]
        ELSE [nes |-> n, err |-> reset_addr.err]

-----------------------------------------------------------------------------
(* ROM images *)

\* a PRG-ROM of `len` bytes: `code` at offset 0, `tail` as its last bytes, 0 elsewhere
MkPrg(code, tail, len) ==
    LET base == len - Len(tail)
        D == {i \in 0..(Len(code) - 1) : code[i + 1] # 0}
             \cup {base + j - 1 : j \in {k \in 1..Len(tail) : tail[k] # 0}}
    IN  [i \in D |-> IF i < Len(code) THEN code[i + 1] ELSE tail[i - base + 1]]

\* a mapper-0 Rom with `pages` 16 KiB PRG pages
MkRom(code, tail, pages) ==
    [mapper |-> 0, prg_len |-> pages * 16384, prg_rom |-> MkPrg(code, tail, pages * 16384)]

\* last six bytes (NMI, reset, IRQ vectors) with the reset vector -> $8000
TailReset8000 == <<0, 0, 0, 128, 0, 0>>

\* last six bytes with the reset vector -> $C000
TailResetC000 == <<0, 0, 0, 192, 0, 0>>

\* last six bytes with the reset vector -> $8003
TailReset8003 == <<0, 0, 3, 128, 0, 0>>

\* the last six bytes 00 00 00 00 00 80
TailS1 == <<0, 0, 0, 0, 0, 128>>

\* a page whose last six bytes are 00 00 00 00 00 80
RomS1 == MkRom(<<>>, TailS1, 1)

\* A9 00 A9 FF 00: LDA #$00; LDA #$FF; (BRK)
RomS2 == MkRom(<<169, 0, 169, 255, 0>>, TailReset8000, 1)

\* A9 00 F0 02 A9 01 00: LDA #$00; BEQ +2; LDA #$01; (BRK)
RomS3 == MkRom(<<169, 0, 240, 2, 169, 1, 0>>, TailReset8000, 1)

\* 20 06 80 00 00 00 60: JSR $8006; ...; (RTS)
RomS4 == MkRom(<<32, 6, 128, 0, 0, 0, 96>>, TailReset8000, 1)

\* 4C 00 80: JMP $8000
RomLoop == MkRom(<<76, 0, 128>>, TailReset8000, 1)

\* D0 FE at $C000 (the mirror of the single page): BNE -2
RomLoopBne == MkRom(<<208, 254>>, TailResetC000, 1)

\* C6 10 4C 00 80: DEC $10; JMP $8000, two pages
RomLoopDec == MkRom(<<198, 16, 76, 0, 128>>, TailReset8000, 2)

\* A9 12 8D 05 20  A9 34 8D 05 20  AD 02 20  8D 00 20  8D 01 20  8D 05 20  AD 02 20  4C 00 80:
\* LDA #$12; STA $2005; LDA #$34; STA $2005; LDA $2002; STA $2000; STA $2001;
\* STA $2005; LDA $2002; JMP $8000
RomPpu == MkRom(<<169, 18, 141, 5, 32, 169, 52, 141, 5, 32, 173, 2, 32,
                  141, 0, 32, 141, 1, 32, 141, 5, 32, 173, 2, 32, 76, 0, 128>>,
                TailReset8000, 1)

\* 00 00 00 78 D8 A2 FF 9A A0 01 88 84 10 C6 10 A9 F0 29 0F 85 11 91 10 10 02 00 00
\* A2 80 A0 7F AD 10 00 D0 02 F0 02 00 00 8D 06 20, entered at $8003:
\* SEI; CLD; LDX #$FF; TXS; LDY #$01; DEY; STY $10; DEC $10; LDA #$F0; AND #$0F;
\* STA $11; STA ($10),Y; BPL +2; LDX #$80; LDY #$7F; LDA $0010; BNE +2; BEQ +2;
\* STA $2006
RomOps == MkRom(<<0, 0, 0, 120, 216, 162, 255, 154, 160, 1, 136, 132, 16, 198, 16,
                  169, 240, 41, 15, 133, 17, 145, 16, 16, 2, 0, 0,
                  162, 128, 160, 127, 173, 16, 0, 208, 2, 240, 2, 0, 0, 141, 6, 32>>,
                TailReset8003, 1)

\* the JMP $8000 image with mapper id 1 in its header
RomMapper1 == [RomLoop EXCEPT !.mapper = 1]

\* AD 02 20 10 FB: LDA $2002; BPL -5
RomWait == MkRom(<<173, 2, 32, 16, 251>>, TailReset8000, 1)

\* D0 FB at $8000: BNE -5, a branch back across $8000
RomBranchBack == MkRom(<<208, 251>>, TailReset8000, 1)

\* reset vector $FFFE, D0 02 at $FFFE: BNE +2 whose pc + 2 passes $FFFF
RomBranchWrap == MkRom(<<>>, <<0, 0, 254, 255, 208, 2>>, 1)

\* reset vector $FFFE, 4C 10 at $FFFE: JMP whose operand is read by read_u16($FFFF)
RomJmpWrap == MkRom(<<>>, <<0, 0, 254, 255, 76, 16>>, 1)

\* reset vector $FFFF, A9 at $FFFF: LDA # whose operand byte is at pc + 1 = $0000
RomFetchWrap == MkRom(<<>>, <<0, 0, 255, 255, 0, 169>>, 1)

\* A9 55 AD 16 40: LDA #$55; LDA $4016, a read the bus has no arm for
RomReadBad == MkRom(<<169, 85, 173, 22, 64>>, TailReset8000, 1)

\* A9 40 85 11 A0 16 91 10: LDA #$40; STA $11; LDY #$16; STA ($10),Y, a write to $4016
RomIndBad == MkRom(<<169, 64, 133, 17, 160, 22, 145, 16>>, TailReset8000, 1)

Roms == {RomS1, RomS2, RomS3, RomS4, RomLoop, RomLoopBne, RomLoopDec, RomPpu, RomOps,
         RomMapper1, RomWait, RomBranchBack, RomBranchWrap, RomJmpWrap, RomFetchWrap,
         RomReadBad, RomIndBad}

\* the ROMs run for two frames: one that never reads $2002 and one that polls it
FrameRoms == {RomLoop, RomWait}

\* the ROMs whose program is an infinite loop that never touches the PPU
LoopRoms == {RomLoop, RomLoopBne, RomLoopDec}

\* the ROMs the bus harness loads
BusRoms == {RomS2, RomLoopDec}

\* the addresses the bus harness uses: RAM ends, the first RAM mirror, PPUSTATUS,
\* PPUSCROLL, PPUADDR, the input port $4016, the status byte $6000 of the
\* verification ROMs, the first PRG byte $8000 and $C000
BusAddrs == {0, 2047, 2048, 8194, 8197, 8198, 16406, 24576, 32768, 49152}

\* the bytes the bus harness writes
BusValues == {18, 52, 255}

-----------------------------------------------------------------------------
(* The machine *)

\* the Nes value assembled from its fields
Nes == [rom |-> rom, ram |-> ram, cpu |-> cpu, ppu |-> ppu, overflow_checks |-> overflow_checks]

\* the state right after Nes::new_from_rom(r) in a build with overflow checks oc
Constructed(r, oc, n) ==
    LET c == new_from_rom(r, oc)
    IN  /\ rom = c.nes.rom
        /\ ram = c.nes.ram
        /\ cpu = c.nes.cpu
        /\ ppu = c.nes.ppu
        /\ overflow_checks = oc
        /\ fatal = c.err
        /\ phase = 0
        /\ cpu_step = NoStep
        /\ nc = 0
        /\ np = 0
        /\ vblank_at = 0
        /\ cycles = n
        /\ calls = <<>>

Init == \E r \in Roms, oc \in BOOLEAN : Constructed(r, oc, MaxCycles)

InitVblank == \E r \in LoopRoms, oc \in BOOLEAN : Constructed(r, oc, VblankCycles)

InitFrames == \E r \in FrameRoms, oc \in BOOLEAN : Constructed(r, oc, FrameCycles)

InitBus == \E r \in BusRoms, oc \in BOOLEAN : Constructed(r, oc, 0)

Running == fatal.kind = "none"

\* Nes::step, first part: the step_cpu call
StepCpu ==
    /\ Running
    /\ phase = 0
    /\ nc < cycles
    /\ LET r == step_cpu(Nes)
       IN  /\ rom' = r.nes.rom
           /\ ram' = r.nes.ram
           /\ cpu' = r.nes.cpu
           /\ ppu' = r.nes.ppu
           /\ fatal' = r.err
           /\ phase' = IF IsOk(r) THEN 1 ELSE phase
           /\ cpu_step' = IF IsOk(r) THEN r.step ELSE cpu_step
    /\ UNCHANGED <<overflow_checks, nc, np, vblank_at, cycles, calls>>

\* the PPU tick from `before` to `after` yields Ppu(Vblank): the VBlank flag went 0 -> 1
YieldsVblank(before, after) ==
    ~Contains(before.status, VBLANK_STARTED) /\ Contains(after.status, VBLANK_STARTED)

\* Nes::step with only two step_ppu calls before the return
StepPpuTwice ==
    /\ Running
    /\ phase \in 1..2
    /\ LET n1 == step_ppu(Nes)
       IN  /\ ppu' = n1.ppu
           /\ vblank_at' = IF YieldsVblank(ppu, n1.ppu) THEN n1.ppu.cycle ELSE vblank_at
    /\ np' = np + 1
    /\ phase' = IF phase = 2 THEN 0 ELSE phase + 1
    /\ nc' = IF phase = 2 THEN nc + 1 ELSE nc
    /\ UNCHANGED <<rom, ram, cpu, overflow_checks, fatal, cpu_step, cycles, calls>>

\* Nes::step, the three step_ppu calls; the third is followed by the return of cpu_step
StepPpu ==
    /\ Running
    /\ phase \in 1..3
    /\ LET n1 == step_ppu(Nes)
       IN  /\ ppu' = n1.ppu
           /\ vblank_at' = IF YieldsVblank(ppu, n1.ppu) THEN n1.ppu.cycle ELSE vblank_at
    /\ np' = np + 1
    /\ phase' = IF phase = 3 THEN 0 ELSE phase + 1
    /\ nc' = IF phase = 3 THEN nc + 1 ELSE nc
    /\ UNCHANGED <<rom, ram, cpu, overflow_checks, fatal, cpu_step, cycles, calls>>

\* a harness calls nes.read_u8(addr)
BusRead ==
    /\ Running
    /\ phase = 0
    /\ Len(calls) < MaxBusCalls
    /\ \E addr \in BusAddrs :
          LET r == read_u8(Nes, addr)
          IN  /\ fatal' = r.err
              /\ calls' = Append(calls, [fn |-> "read_u8", addr |-> addr, value |-> 0,
                                         ret |-> r.val, ok |-> IsOk(r), before |-> ppu])
    /\ UNCHANGED <<rom, ram, cpu, ppu, overflow_checks, phase, cpu_step, nc, np,
                   vblank_at, cycles>>

\* a harness calls nes.write_u8(addr, value)
BusWrite ==
    /\ Running
    /\ phase = 0
    /\ Len(calls) < MaxBusCalls
    /\ \E addr \in BusAddrs, value \in BusValues :
          LET w == write_u8(Nes, addr, value)
          IN  /\ rom' = w.nes.rom
              /\ ram' = w.nes.ram
              /\ cpu' = w.nes.cpu
              /\ ppu' = w.nes.ppu
              /\ fatal' = w.err
              /\ calls' = Append(calls, [fn |-> "write_u8", addr |-> addr, value |-> value,
                                         ret |-> 0, ok |-> w.err.kind = "none",
                                         before |-> ppu])
    /\ UNCHANGED <<overflow_checks, phase, cpu_step, nc, np, vblank_at, cycles>>

Next == StepCpu \/ StepPpu

NextBus == BusRead \/ BusWrite

\* the stepper pulled MaxCycles times, on every ROM
Spec == Init /\ [][Next]_vars

\* the stepper pulled past the first VBlank, on the looping ROMs
SpecVblank == InitVblank /\ [][Next]_vars

\* the stepper pulled through the first frame and past the VBlank dot of the second
SpecFrames == InitFrames /\ [][Next]_vars

\* a harness making direct bus calls on a freshly constructed Nes
SpecBus == InitBus /\ [][NextBus]_vars

-----------------------------------------------------------------------------
(* Properties *)

\* the VBlank bit of PPUSTATUS
Vblank == Contains(ppu.status, VBLANK_STARTED)

\* the state right after construction: nothing stepped, nothing called
Fresh ==
    /\ Running
    /\ nc = 0
    /\ np = 0
    /\ phase = 0
    /\ cpu_step = NoStep
    /\ calls = <<>>

\* the byte the PRG-ROM holds for CPU address addr
PrgAt(addr) == Get(rom.prg_rom, (addr - 32768) % rom.prg_len)

\* the last `Len(tail)` bytes of the PRG-ROM are `tail`
PrgEndsIn(tail) ==
    \A j \in 1..Len(tail) : Get(rom.prg_rom, rom.prg_len - Len(tail) + j - 1) = tail[j]

\* the state right after step_cpu returned inside Nes::step
AfterCpuStep == Running /\ phase = 1

\* number of step_cpu calls that returned a CpuStep
Executed == IF phase = 0 THEN nc ELSE nc + 1

\* the last direct bus call, and the one before it
LastCall == calls[Len(calls)]
PrevCall == calls[Len(calls) - 1]

\* C1: at every return of Nes::step (a CPU-cycle boundary) the number of PPU cycles
\* is three times the number of CPU steps returned, inside a step it is 3nc, 3nc+1
\* or 3nc+2, and ppu.cycle is that count: after n CPU steps ppu.cycle = 3n.
StepRatio ==
    /\ ppu.cycle = np
    /\ (phase = 0 => np = 3 * nc)
    /\ (phase # 0 => np \in {3 * nc, 3 * nc + 1, 3 * nc + 2})

StepRatioWitness == nc = 3 /\ phase = 3 /\ np = 11 /\ ppu.cycle = 11

\* C2 as stated: for a 16 KiB page ending in 00 00 00 00 00 80 the pc after
\* construction is $8000.
ResetVectorS1 ==
    (Fresh /\ rom.prg_len = 16384 /\ PrgEndsIn(TailS1)) => cpu.pc = 32768

\* C2 amended: right after construction pc is the little-endian word at $FFFC/$FFFD,
\* s = $FD and p = $34; a page ending in 00 00 00 00 00 80 gives pc = $0000 (its
\* $80 is the byte at $FFFF), a page ending in 00 00 00 80 00 00 gives pc = $8000.
ResetVector ==
    Fresh =>
        /\ cpu.pc = PrgAt(65532) + 256 * PrgAt(65533)
        /\ cpu.s = 253
        /\ cpu.p = 52
        /\ (PrgEndsIn(TailS1) => cpu.pc = 0)
        /\ (PrgEndsIn(TailReset8000) => cpu.pc = 32768)

ResetVectorWitness == Fresh /\ rom = RomOps /\ cpu.pc = 32771 /\ cpu.s = 253

\* C3 as stated: the first 0 -> 1 transition of the VBlank flag happens after
\* exactly 27,281 PPU cycles.
FirstVblankAt27281 == vblank_at # 0 => vblank_at = 27281

\* C3 amended: with a looping program that never touches the PPU, the VBlank flag
\* first goes 0 -> 1 in the step_ppu call that starts at ppu.cycle = 81,841
\* (scanline 240, dot 1) and ends at 81,842, the second PPU tick of the 27,281st
\* CPU step, and this is the same for every such ROM.
FirstVblank ==
    /\ (vblank_at # 0 => vblank_at = 240 * 341 + 2)
    /\ (Vblank <=> ppu.cycle >= 240 * 341 + 2)
    /\ (Vblank <=> vblank_at # 0)
    /\ (ppu.cycle = 240 * 341 + 2 => nc = 27280 /\ phase = 3)

FirstVblankWitness == rom = RomLoopBne /\ Vblank /\ vblank_at = 81842 /\ nc = 27281

\* C4: right after a read of $2002 (by LDA $2002 or by a direct read_u8) the VBlank
\* bit is 0 and scroll_addr_latch is false, and the read returned the status byte
\* as it was before.
StatusReadClears ==
    /\ (AfterCpuStep /\ cpu_step.op = "LdaAbs" /\ cpu_step.arg = 8194)
          => (~Vblank /\ ~ppu.scroll_addr_latch)
    /\ (calls # <<>> /\ LastCall.fn = "read_u8" /\ LastCall.addr = 8194)
          => (/\ LastCall.ok
              /\ LastCall.ret = LastCall.before.status
              /\ ~Vblank
              /\ ~ppu.scroll_addr_latch)

\* C5: two writes x then y to $2005, the first with the latch in its first-write
\* state, leave scroll with low byte x and high byte y.
ScrollPair ==
    (/\ Len(calls) >= 2
     /\ PrevCall.fn = "write_u8" /\ PrevCall.addr = 8197
     /\ LastCall.fn = "write_u8" /\ LastCall.addr = 8197
     /\ ~PrevCall.before.scroll_addr_latch)
        => (/\ LastCall.ok
            /\ ppu.scroll % 256 = PrevCall.value
            /\ ppu.scroll \div 256 = LastCall.value)

\* C6: a single write to $2005 or to $2006 flips scroll_addr_latch, and two
\* consecutive writes to the same register return it to its value before the pair.
LatchToggle ==
    /\ (calls # <<>> /\ LastCall.fn = "write_u8" /\ LastCall.addr \in {8197, 8198})
          => (LastCall.ok /\ ppu.scroll_addr_latch = ~LastCall.before.scroll_addr_latch)
    /\ (/\ Len(calls) >= 2
        /\ PrevCall.fn = "write_u8" /\ LastCall.fn = "write_u8"
        /\ PrevCall.addr \in {8197, 8198} /\ LastCall.addr = PrevCall.addr)
          => (LastCall.ok /\ ppu.scroll_addr_latch = PrevCall.before.scroll_addr_latch)

\* C7: write_u8(a, v) then read_u8(b), for a in $0000-$1FFF and b a mirror of a
\* (b = a modulo $0800, b in $0000-$1FFF), both succeed and the read returns v.
RamRoundTrip ==
    /\ (calls # <<>> /\ LastCall.addr \in 0..8191) => LastCall.ok
    /\ (/\ Len(calls) >= 2
        /\ PrevCall.fn = "write_u8" /\ PrevCall.addr \in 0..8191
        /\ LastCall.fn = "read_u8" /\ LastCall.addr \in 0..8191
        /\ LastCall.addr % 2048 = PrevCall.addr % 2048)
          => (LastCall.ok /\ LastCall.ret = PrevCall.value)

\* the result byte of the instruction just executed
ResultByte ==
    CASE cpu_step.op \in {"LdaImm", "LdaAbs", "AndImm"} -> cpu.a
      [] cpu_step.op = "LdxImm" -> cpu.x
      [] cpu_step.op \in {"LdyImm", "Dey"} -> cpu.y
      [] cpu_step.op = "DecZero" -> Get(ram, cpu_step.arg)
      [] OTHER -> 0

\* C8: after LDA #imm, LDA abs, LDX #imm, LDY #imm, AND #imm, DEC zp or DEY, Z is
\* set iff the result byte is 0 and N equals bit 7 of the result.
ResultFlags ==
    (AfterCpuStep /\ cpu_step.op \in {"LdaImm", "LdaAbs", "LdxImm", "LdyImm",
                                      "AndImm", "DecZero", "Dey"})
        => (/\ Contains(cpu.p, FlagZ) <=> (ResultByte = 0)
            /\ Contains(cpu.p, FlagN) <=> (ResultByte >= 128))

\* C9: with A9 00 F0 02 A9 01 00 at $8000 the instructions are fetched at $8000,
\* $8002 and then $8006, never at $8004, and a stays $00.
BeqTaken ==
    rom = RomS3 =>
        /\ cpu.a = 0
        /\ cpu_step.pc # 32772
        /\ (Executed = 1 => cpu_step.pc = 32768 /\ cpu.pc = 32770)
        /\ (Executed = 2 /\ Running => cpu_step.pc = 32770 /\ cpu.pc = 32774)

\* C10: JSR at pc with stack pointer s writes the high byte of pc+2 to $0100|s and
\* the low byte to $0100|((s-1) mod 256), sets s to (s-2) mod 256 and pc to the
\* operand; with 20 06 80 at $8000: s=$FB, mem[$01FD]=$80, mem[$01FC]=$02, pc=$8006.
JsrPush ==
    (AfterCpuStep /\ cpu_step.op = "Jsr") =>
        LET s0 == (cpu.s + 2) % 256
            pushed == (cpu_step.pc + 2) % 65536
        IN  /\ Get(ram, 256 + s0) = pushed \div 256
            /\ Get(ram, 256 + ((s0 - 1) % 256)) = pushed % 256
            /\ cpu.pc = cpu_step.arg
            /\ (rom = RomS4 => /\ cpu.s = 251
                               /\ Get(ram, 509) = 128
                               /\ Get(ram, 508) = 2
                               /\ cpu.pc = 32774)


\* C11: JSR followed by RTS is a round trip; with 20 06 80 00 00 00 60 at $8000 the
\* second step (the RTS at $8006) executes and ends with pc=$8003 and s=$FD.
JsrRtsRoundTrip ==
    rom = RomS4 =>
        /\ ~(fatal.kind = "opcode" /\ fatal.byte = 96)
        /\ (Executed = 2 => cpu_step.pc = 32774 /\ cpu.pc = 32771 /\ cpu.s = 253)

\* the opcode bytes of the decoder table
DecoderTable == {16, 32, 41, 76, 120, 132, 133, 136, 141, 145, 154, 160, 162, 169,
                 173, 198, 208, 216, 240}

\* the state in which the driver is about to make a step_cpu call
AboutToStep == Running /\ phase = 0 /\ nc < cycles

\* the byte the next step_cpu call fetches as its opcode
OpcodeByte == read_u8(Nes, cpu.pc)

\* C12: a CPU step at a pc whose opcode byte is not in the decoder table ends in a
\* fatal unimplemented-opcode state that identifies the byte; that step changes no
\* register, flag, RAM byte or PPU state, and nothing happens after a fatal state.
UnknownOpcodeFatal ==
    [][/\ (AboutToStep /\ IsOk(OpcodeByte) /\ OpcodeByte.val \notin DecoderTable)
           => (/\ fatal'.kind = "opcode"
               /\ fatal'.byte = OpcodeByte.val
               /\ cpu' = cpu /\ ram' = ram /\ ppu' = ppu /\ rom' = rom
               /\ nc' = nc /\ np' = np /\ cpu_step' = cpu_step)
       /\ (~Running => UNCHANGED vars)]_vars

UnknownOpcodeWitness ==
    /\ rom = RomS4 /\ nc = 1 /\ np = 3
    /\ fatal.kind = "opcode" /\ fatal.byte = 96
    /\ cpu.pc = 32774 /\ cpu.s = 251


\* the CPU addresses the bus documents: $0000-$1FFF, $2000-$3FFF, $4000-$4017, $4020-$FFFF
DocumentedAddrs == (0..16383) \cup (16384..16407) \cup (16416..65535)

\* C13: read_u8(addr) returns a byte and never panics for every documented addr;
\* reads of $6000-$7FFF return PRG-RAM content or 0 and reads of $4000-$4013 and
\* $4015 return 0.
BusReadTotal ==
    (calls # <<>> /\ LastCall.fn = "read_u8" /\ LastCall.addr \in DocumentedAddrs)
        => (/\ LastCall.ok
            /\ fatal.kind = "none"
            /\ LastCall.ret \in 0..255
            /\ (LastCall.addr \in (16384..16403) \cup {16405} => LastCall.ret = 0))

\* C14: a write_u8 to $8000-$FFFF is a no-op: the PRG-ROM is always the image that
\* was loaded, and a read in $8000-$FFFF returns the byte of that image.
RomImmutable ==
    /\ rom \in Roms
    /\ (calls # <<>> /\ LastCall.fn = "read_u8" /\ LastCall.addr \in 32768..65535)
          => \E r \in Roms : /\ r.prg_len = rom.prg_len
                             /\ LastCall.ret = Get(r.prg_rom, (LastCall.addr - 32768) % r.prg_len)
                             /\ r.prg_rom = rom.prg_rom

\* the PRG offset of CPU address addr: with one page $C000-$FFFF mirrors $8000-$BFFF,
\* with two pages the offset is addr - $8000
PrgOffset(addr) ==
    IF rom.prg_len = 16384 /\ addr >= 49152 THEN addr - 49152 ELSE addr - 32768

\* C15: read_u8(a) for a in $8000-$FFFF returns prg_rom[(a - $8000) mod len]; with
\* one 16 KiB page read_u8(a) = read_u8(a + $4000) for a in $8000-$BFFF, with two
\* pages the mapping is the identity offset.
PrgMapping ==
    /\ (calls # <<>> /\ LastCall.fn = "read_u8" /\ LastCall.addr \in 32768..65535)
          => (/\ LastCall.ok
              /\ LastCall.ret = Get(rom.prg_rom, PrgOffset(LastCall.addr)))
    /\ (rom.mapper = 0 /\ rom.prg_len = 16384)
          => \A a \in BusAddrs \cap (32768..49151) :
                read_u8(Nes, a) = read_u8(Nes, a + 16384)

PrgMappingWitness ==
    /\ Len(calls) = 2
    /\ rom.prg_len = 16384
    /\ PrevCall.fn = "write_u8" /\ PrevCall.addr = 32768 /\ PrevCall.value = 52
    /\ LastCall.fn = "read_u8" /\ LastCall.addr = 49152 /\ LastCall.ret = 52

\* C16: the $4016 strobe protocol: writes to $4016 (bit 0 = 1, then bit 0 = 0) and the
\* reads of $4016 that follow succeed, and each read returns the next button bit (or
\* 1 from the ninth read on) in bit 0.
InputStrobe ==
    /\ (calls # <<>> /\ LastCall.addr = 16406) => LastCall.ok
    /\ (/\ Len(calls) >= 3
        /\ calls[Len(calls) - 2].fn = "write_u8" /\ calls[Len(calls) - 2].addr = 16406
        /\ calls[Len(calls) - 2].value % 2 = 1
        /\ PrevCall.fn = "write_u8" /\ PrevCall.addr = 16406 /\ PrevCall.value % 2 = 0
        /\ LastCall.fn = "read_u8" /\ LastCall.addr = 16406)
          => LastCall.ret \in {0, 1}


\* C17: a ROM whose mapper id is not 0 is rejected at construction with a fatal
\* unsupported-mapper error: no steppable Nes exists and no CPU or PPU step runs.
UnsupportedMapper ==
    rom.mapper # 0 =>
        /\ fatal.kind = "mapper" /\ fatal.byte = rom.mapper
        /\ nc = 0 /\ np = 0 /\ phase = 0
        /\ cpu_step = NoStep
        /\ cpu = CpuNew /\ ppu = PpuNew
        /\ ~ENABLED Next

UnsupportedMapperWitness == rom = RomMapper1 /\ fatal.kind = "mapper" /\ fatal.addr = 65532

\* dots per frame, and the dot count right after the first VBlank tick
FrameDots == 89342
FirstVblankDot == 240 * 341 + 2

\* C18: a Ppu(Vblank) step is yielded once in every frame of 89,342 PPU cycles, on
\* every frame: once the VBlank dot of frame k has passed, the last Vblank yielded
\* is the one of frame k.
FramePacing ==
    ppu.cycle >= FirstVblankDot =>
        vblank_at = FirstVblankDot + FrameDots * ((ppu.cycle - FirstVblankDot) \div FrameDots)


\* the byte at pc + k with the address wrapped to 16 bits
OperandAt(k) == read_u8(Nes, WrappingAddU16(cpu.pc, k))

\* the condition under which the branch with opcode byte b is taken
BranchTaken(b) ==
    IF b = 240 THEN Contains(cpu.p, FlagZ)
    ELSE IF b = 208 THEN ~Contains(cpu.p, FlagZ)
    ELSE ~Contains(cpu.p, FlagN)

\* C19: a BEQ/BNE/BPL step at any pc with offset d completes without an overflow
\* failure; taken (Z=1 / Z=0 / N=0) it leaves pc = (pc + 2 + d) mod 2^16, not taken
\* pc = (pc + 2) mod 2^16.
BranchTarget ==
    [][(/\ AboutToStep /\ IsOk(OpcodeByte) /\ OpcodeByte.val \in {16, 208, 240}
        /\ IsOk(OperandAt(1)))
       => (/\ fatal'.kind = "none"
           /\ cpu'.pc = IF BranchTaken(OpcodeByte.val)
                        THEN (cpu.pc + 2 + AsI8(OperandAt(1).val) + 65536) % 65536
                        ELSE (cpu.pc + 2) % 65536)]_vars

\* C20: read_u16(addr) is read_u8(addr) | read_u8((addr + 1) mod 2^16) << 8 and operand
\* fetches at pc + 1 / pc + 2 wrap at 16 bits without an overflow failure: a JMP step
\* lands on the word read at pc + 1, an LDA # step loads the byte at pc + 1.
ReadU16Wraps ==
    [][/\ (/\ AboutToStep /\ IsOk(OpcodeByte) /\ OpcodeByte.val = 76
           /\ IsOk(OperandAt(1)) /\ IsOk(OperandAt(2)))
          => (/\ fatal'.kind = "none"
              /\ cpu'.pc = BitOr(OperandAt(1).val, OperandAt(2).val * 256))
       /\ (/\ AboutToStep /\ IsOk(OpcodeByte) /\ OpcodeByte.val = 169
           /\ IsOk(OperandAt(1)))
          => (/\ fatal'.kind = "none"
              /\ cpu'.a = OperandAt(1).val
              /\ cpu'.pc = (cpu.pc + 2) % 65536)]_vars


\* the transition is a step_cpu call that retired the instruction named op
Retires(op) == AboutToStep /\ phase' = 1 /\ cpu_step'.op = op

\* C21: over any sequence of CPU steps, I changes only in a step executing SEI, which
\* leaves it 1; D changes only in a step executing CLD, which leaves it 0; B, U, C and
\* V are changed by no step, so bit 5 (U) of p is 1 in every reachable state.
FlagFrame ==
    /\ []Contains(cpu.p, FlagU)
    /\ [][/\ (BitAnd(cpu'.p, FlagI) # BitAnd(cpu.p, FlagI)) => Retires("Sei")
          /\ Retires("Sei") => Contains(cpu'.p, FlagI)
          /\ (BitAnd(cpu'.p, FlagD) # BitAnd(cpu.p, FlagD)) => Retires("Cld")
          /\ Retires("Cld") => ~Contains(cpu'.p, FlagD)
          /\ BitAnd(cpu'.p, FlagB + FlagU + FlagC + FlagV)
                = BitAnd(cpu.p, FlagB + FlagU + FlagC + FlagV)]_vars

\* SEI and CLD have run and a later instruction has changed Z, with B and U still 1
FlagFrameWitness ==
    /\ rom = RomOps /\ cpu_step.op = "AndImm" /\ Running
    /\ cpu.p = FlagU + FlagB + FlagI + FlagZ


\* the bus has no read arm, or no write arm, for address a
UnhandledRead(a) == read_u8(Nes, a).err.kind = "read"
UnhandledWrite(a) == write_u8(Nes, a, 0).err.kind = "write"

\* the operand word of the instruction at pc
OperandWord == BitOr(OperandAt(1).val, OperandAt(2).val * 256)

\* C22: a CPU step whose operand read or write goes to an address the bus does not
\* handle ends in a fatal state naming that address and the direction, and the step
\* is all-or-nothing: registers, flags, RAM, PRG bytes and PPU state are as before.
AddressFault ==
    [][/\ (AboutToStep /\ fatal'.kind \in {"read", "write"})
          => (/\ cpu' = cpu /\ ram' = ram /\ rom' = rom /\ ppu' = ppu
              /\ nc' = nc /\ np' = np /\ cpu_step' = cpu_step
              /\ fatal'.kind = "read" => UnhandledRead(fatal'.addr)
              /\ fatal'.kind = "write" => UnhandledWrite(fatal'.addr))
       /\ (/\ AboutToStep /\ IsOk(OpcodeByte) /\ OpcodeByte.val \in {141, 173}
           /\ cpu.pc + 2 <= 65535 /\ IsOk(OperandAt(1)) /\ IsOk(OperandAt(2)))
          => (/\ (OpcodeByte.val = 173 /\ UnhandledRead(OperandWord))
                    => (fatal'.kind = "read" /\ fatal'.addr = OperandWord)
              /\ (OpcodeByte.val = 141 /\ UnhandledWrite(OperandWord))
                    => (fatal'.kind = "write" /\ fatal'.addr = OperandWord))]_vars

\* LDA $4016 has failed after LDA #$55 had run: a and pc are those before the step
AddressFaultWitness ==
    /\ rom = RomReadBad /\ fatal = [kind |-> "read", addr |-> 16406, byte |-> 0]
    /\ cpu.a = 85 /\ cpu.pc = 32770 /\ nc = 1


WaitLoopExit ==
    rom = RomWait =>
        /\ (AfterCpuStep /\ cpu_step.op = "Bpl" /\ cpu.a >= VBLANK_STARTED)
              => cpu.pc = 32773
        /\ (phase = 0 /\ ppu.cycle >= FirstVblankDot + 12)
              => cpu.pc \notin {32768, 32771}

====
